---- MODULE Spec2Model ----
(***************************************************************************)
(* The 3D anatomy browser: the dual (synchronised) view of                 *)
(* src/unnamed/part_000 and the single view of                             *)
(* src/Education/3D-Anatomy-Browser/js/main.js.                            *)
(*                                                                         *)
(* Lengths are in tenths of a scene unit, so that the zoom factors 0.8     *)
(* and 0.9 and the per-model scale factors 0.75 and 0.8 stay exact.  A     *)
(* quaternion of a camera that OrbitControls aims is the direction it      *)
(* looks along, as a primitive integer vector; the identity is (0,0,-1).   *)
(* A floating-point quotient is a reduced fraction <<n, d>>.               *)
(***************************************************************************)
EXTENDS Integers, Sequences, FiniteSets, TLC

VARIABLES
    page,            \* which page's script runs: "dual" or "single"
    window,          \* [innerWidth, innerHeight]
    loadingSpinner,  \* style.display of #loading-spinner
    requests,        \* the loader.load calls made so far, and how each stands
    ev,              \* the handler that ran last, and what it did
    applied,         \* the last application of the scaling rule on its own
    \* ---- dual view (part_000)
    syncEnabled, modelsLoaded, objects, syncButton,
    lastChange,      \* the viewport whose controls dispatched 'change' last (0: none yet)
    camera1, camera2, controls1, controls2,
    scene1, scene2, renderer1, renderer2, canvas1, canvas2,
    \* ---- single view (main.js)
    object, objToRender, scene, camera, controls, renderer,
    loadingBar, loadingProgress, ambientintensity, ambientLight, info,
    \* ---- quiz (upperlimb_quiz.js, part_000)
    currentQuestion, score,
    questionElement, \* innerText of #question
    optionsElement,  \* what #options holds: the option buttons, or the result
    attempt          \* the attempt under way: its number, answer clicks and right answers

dualVars == <<syncEnabled, modelsLoaded, objects, syncButton, lastChange, camera1, camera2,
              controls1, controls2, scene1, scene2, renderer1, renderer2,
              canvas1, canvas2>>

singleVars == <<object, objToRender, scene, camera, controls, renderer,
                loadingBar, loadingProgress, ambientintensity, ambientLight, info>>

quizVars == <<currentQuestion, score, questionElement, optionsElement, attempt>>

vars == <<page, window, loadingSpinner, requests, ev, applied, dualVars, singleVars,
          quizVars>>

----------------------------------------------------------------------------
(* Numbers *)

Abs(n) == IF n < 0 THEN -n ELSE n

RECURSIVE GCD(_, _)
GCD(a, b) == IF b = 0 THEN a ELSE GCD(b, a % b)

\* the double n / d, as a reduced fraction; JavaScript's NaN is <<0, 0>> and its
\* Infinity <<1, 0>>
Frac(n, d) ==
    IF d = 0 THEN (IF n = 0 THEN <<0, 0>> ELSE <<1, 0>>)
    ELSE LET g == GCD(Abs(n), Abs(d)) IN <<n \div g, d \div g>>

FMul(a, b) == Frac(a[1] * b[1], a[2] * b[2])

Max3(a, b, c) == IF a >= b /\ a >= c THEN a ELSE IF b >= c THEN b ELSE c

\* Math.sqrt on the squares the assets below produce
ISqrt(n) == CHOOSE r \in 0..n : r * r <= n /\ (r + 1) * (r + 1) > n

----------------------------------------------------------------------------
(* THREE.Vector3, THREE.Box3 *)

Vec(x, y, z) == <<x, y, z>>
Zero3 == Vec(0, 0, 0)
VAdd(a, b) == Vec(a[1] + b[1], a[2] + b[2], a[3] + b[3])
VSub(a, b) == Vec(a[1] - b[1], a[2] - b[2], a[3] - b[3])

\* the identity quaternion of a new camera: it looks down -Z
IdentityQuaternion == Vec(0, 0, -1)

\* Object3D.lookAt: the orientation that looks from `position` at `target`
LookAt(position, target) ==
    LET d == VSub(target, position)
        g == GCD(GCD(Abs(d[1]), Abs(d[2])), Abs(d[3]))
    IN IF g = 0 THEN IdentityQuaternion
       ELSE Vec(d[1] \div g, d[2] \div g, d[3] \div g)

\* Box3.getSize, Box3.getCenter, Box3.getBoundingSphere().radius
BoxSize(bbox) == VSub(bbox.max, bbox.min)
BoxCenter(bbox) ==
    Vec((bbox.min[1] + bbox.max[1]) \div 2, (bbox.min[2] + bbox.max[2]) \div 2,
        (bbox.min[3] + bbox.max[3]) \div 2)
BoxRadius(bbox) ==
    LET s == BoxSize(bbox)
    IN ISqrt(s[1] * s[1] + s[2] * s[2] + s[3] * s[3]) \div 2

----------------------------------------------------------------------------
(* Inputs *)

\* the bounding boxes a parsed gltf.scene can have (tenths of a unit)
Assets ==
    { [min |-> Vec(0, 10, -10),  max |-> Vec(40, 30, 30)],
      [min |-> Vec(-20, -30, 0), max |-> Vec(20, 30, 120)] }

\* the dual view loads two fixed files, one per viewport: each has one box
DualAssets(v) == { b \in Assets : b.min[1] = (IF v = 1 THEN 0 ELSE -20) }

\* where a drag or a wheel turn leaves the camera, relative to the orbit target
UserOffsets == { Vec(30, 0, 0) }

WindowSizes ==
    { [innerWidth |-> 8, innerHeight |-> 6], [innerWidth |-> 9, innerHeight |-> 6] }

\* what a handler did: the camera-to-camera copies it made (with the two controls'
\* enabled flags at the time of each) and the change notifications it dispatched
\* and, for a frame, the poses both viewports were drawn with.  A resize and a
\* toggle also record whether the same handler ran just before (`again`), a
\* toggle the flag and colour it found (`was`); a tick, a drag and a resize of the
\* dual view record whether they are the first handler after sync was enabled
\* with the cameras apart (`first`).
Event(type, vp, load, copies, changes, frame) ==
    [type |-> type, vp |-> vp, load |-> load, copies |-> copies, changes |-> changes,
     frame |-> frame]

----------------------------------------------------------------------------
(* Dual view: src/unnamed/part_000 *)

ZoomFactor1 == 8      \* loadModel(..., canvas1, 0.8, 1.0)
ZoomFactor2 == 9      \* loadModel(..., canvas2, 0.9, 1.6)
ZoomFactorOf(v) == IF v = 1 THEN ZoomFactor1 ELSE ZoomFactor2
AmbientOf(v) == IF v = 1 THEN 10 ELSE 16
DualModelName(v) == IF v = 1 THEN "Upperlimb_diffuse" ELSE "Upperlimb_polarized"

\* the lights loadModel puts into a new scene
SceneLights(ambientLightIntensity) ==
    { [kind |-> "AmbientLight", intensity |-> ambientLightIntensity, z |-> 1],
      [kind |-> "DirectionalLight", intensity |-> 5, z |-> 1],
      [kind |-> "DirectionalLight", intensity |-> 5, z |-> -1] }

Models(children) == { c \in children : c.kind = "model" }

\* the two cameras and controls while one handler runs
Rig == [c1 |-> camera1, c2 |-> camera2, k1 |-> controls1, k2 |-> controls2,
        copies |-> <<>>, changes |-> <<>>]

Cam(r, v) == IF v = 1 THEN r.c1 ELSE r.c2
Ctl(r, v) == IF v = 1 THEN r.k1 ELSE r.k2
Pose(cam) == [position |-> cam.position, quaternion |-> cam.quaternion]

\* cameraTo.position.copy(cameraFrom.position); cameraTo.quaternion.copy(...)
CopyPose(r, from) ==
    LET src == Cam(r, from)
        log == Append(r.copies, [from |-> from, en1 |-> r.k1.enabled, en2 |-> r.k2.enabled])
    IN IF from = 1
       THEN [r EXCEPT !.c2.position = src.position, !.c2.quaternion = src.quaternion,
                      !.copies = log]
       ELSE [r EXCEPT !.c1.position = src.position, !.c1.quaternion = src.quaternion,
                      !.copies = log]

\* the listener copying from the other viewport's camera
ChangeListenerBackwards(r, v, sync) == IF sync THEN CopyPose(r, 3 - v) ELSE r

\* the listener without its test of syncEnabled
ChangeListenerAlways(r, v, sync) == CopyPose(r, v)

\* the 'change' listener of controls v
ChangeListener(r, v, sync) == IF sync THEN CopyPose(r, v) ELSE r

\* controls v dispatches 'change' to its listeners (none before they are attached);
\* the log keeps the emitter's pose and both poses when the listeners are done
DispatchChange(r, v, sync, listening) ==
    LET r1 == IF listening THEN ChangeListener(r, v, sync) ELSE r
    IN [r1 EXCEPT !.changes = Append(r.changes,
           [vp |-> v, pose |-> Pose(Cam(r, v)), heard |-> listening,
            after1 |-> Pose(r1.c1), after2 |-> Pose(r1.c2)])]

\* OrbitControls.update() of controls v.  `delta` is <<>> when no rotate or dolly
\* delta is pending, and <<offset>> when the pending deltas put the camera at
\* `offset` from the target.  The camera is aimed at the target, and 'change' is
\* dispatched when position or orientation differ from the last ones dispatched.
Update(r, v, delta, sync, listening) ==
    LET k == Ctl(r, v)
        offset == IF delta = <<>> THEN VSub(Cam(r, v).position, k.target) ELSE delta[1]
        position == VAdd(k.target, offset)
        quaternion == LookAt(position, k.target)
        changed == position # k.lastPosition \/ quaternion # k.lastQuaternion
        aimed == IF v = 1
                 THEN [r EXCEPT !.c1.position = position, !.c1.quaternion = quaternion]
                 ELSE [r EXCEPT !.c2.position = position, !.c2.quaternion = quaternion]
        told == IF changed THEN DispatchChange(aimed, v, sync, listening) ELSE aimed
    IN IF ~changed THEN told
       ELSE IF v = 1
            THEN [told EXCEPT !.k1.lastPosition = position, !.k1.lastQuaternion = quaternion]
            ELSE [told EXCEPT !.k2.lastPosition = position, !.k2.lastQuaternion = quaternion]

\* the deltas update() can find pending: none, or, after a drag (damping keeps a
\* residue of the rotate delta after every update), one that moves the camera
Deltas(k) ==
    IF k.sphericalDelta THEN {<<>>} \cup { <<o>> : o \in UserOffsets } ELSE {<<>>}

\* the viewport of the last 'change' a handler's listeners heard, or `before` if
\* they heard none
LastChange(r, before) ==
    LET heard == SelectSeq(r.changes, LAMBDA c : c.heard)
    IN IF heard = <<>> THEN before ELSE heard[Len(heard)].vp

\* the tick copying camera 2 onto camera 1
AnimateSyncBackwards(r, sync) ==
    IF sync
    THEN LET off == [r EXCEPT !.k1.enabled = FALSE, !.k2.enabled = FALSE]
             copied == CopyPose(off, 2)
         IN [copied EXCEPT !.k1.enabled = TRUE, !.k2.enabled = TRUE]
    ELSE r

\* whether the handler that runs now is the first since a toggle that enabled sync
\* while the two cameras were apart
FirstSync == [first |-> ev.type = "toggle" /\ syncEnabled /\ Pose(camera1) # Pose(camera2)]

\* animate(), lines 128-141: the tick's camera-1-to-camera-2 copy
AnimateSync(r, sync) ==
    IF sync
    THEN LET off == [r EXCEPT !.k1.enabled = FALSE, !.k2.enabled = FALSE]
             copied == CopyPose(off, 1)
         IN [copied EXCEPT !.k1.enabled = TRUE, !.k2.enabled = TRUE]
    ELSE r

\* onWindowResize(): both cameras' aspect, then controls1.update() and
\* controls2.update(), each with the offset it computes
HalfWidth(win) == Frac(win.innerWidth, 2)
AspectOf(win) == Frac(win.innerWidth, 2 * win.innerHeight)
SizeOf(win) == [width |-> HalfWidth(win), height |-> win.innerHeight]
\* canvas.width and canvas.height are integer attributes
CanvasOf(win) == [width |-> win.innerWidth \div 2, height |-> win.innerHeight]

\* a resize that multiplies the present aspect instead of replacing it
ResizeRigAccumulating(r, win, delta1, delta2, sync, listening) ==
    LET a == [r EXCEPT !.c1.aspect = FMul(r.c1.aspect, AspectOf(win)),
                       !.c2.aspect = FMul(r.c2.aspect, AspectOf(win))]
    IN Update(Update(a, 1, delta1, sync, listening), 2, delta2, sync, listening)

ResizeRig(r, win, delta1, delta2, sync, listening) ==
    LET a == [r EXCEPT !.c1.aspect = AspectOf(win), !.c2.aspect = AspectOf(win)]
    IN Update(Update(a, 1, delta1, sync, listening), 2, delta2, sync, listening)

\* the loader's onLoad callback of loadModel, lines 35-66, for viewport v
DesiredSize == 20     \* const desiredSize = 2
MaxDimension(bbox) == LET s == BoxSize(bbox) IN Max3(s[1], s[2], s[3])
ScaleToFit(bbox) == Frac(DesiredSize, MaxDimension(bbox))
\* the camera distance without the zoom factor
CameraDistanceNoZoom(bbox, zoomFactor) == BoxRadius(bbox) * 2

CameraDistance(bbox, zoomFactor) == (BoxRadius(bbox) * 2 * zoomFactor) \div 10
Framing(bbox, zoomFactor) ==
    VAdd(BoxCenter(bbox), Vec(0, 0, CameraDistance(bbox, zoomFactor)))

DualModel(v, bbox) ==
    [kind |-> "model", id |-> v, bbox |-> bbox, scale |-> FMul(<<1, 1>>, ScaleToFit(bbox))]

\* the spinner hidden by the first model already
BothLoadedEarly(n) == n >= 1

\* hideSpinner() is called when the count of loaded models reaches 2
BothLoaded(n) == n = 2

NotApplied == [view |-> "none"]

----------------------------------------------------------------------------
(* Dual view: the state when the module script has run (lines 8-201) *)

\* new THREE.PerspectiveCamera(75, clientWidth / clientHeight, ...); position.set(0, 0, 5 * zoomFactor)
NewCamera(zoomFactor) ==
    [position |-> Vec(0, 0, 5 * zoomFactor), quaternion |-> IdentityQuaternion,
     aspect |-> <<2, 1>>]

\* new OrbitControls(camera, domElement): its constructor ends with update()
NewControls(cam) ==
    [target |-> Zero3, lastPosition |-> cam.position,
     lastQuaternion |-> LookAt(cam.position, Zero3), enabled |-> TRUE,
     sphericalDelta |-> FALSE]

ScriptRig(win) ==
    LET built == [c1 |-> NewCamera(ZoomFactor1), c2 |-> NewCamera(ZoomFactor2),
                  k1 |-> NewControls(NewCamera(ZoomFactor1)),
                  k2 |-> NewControls(NewCamera(ZoomFactor2)),
                  copies |-> <<>>, changes |-> <<>>]
    IN AnimateSync(ResizeRig(built, win, <<>>, <<>>, TRUE, FALSE), TRUE)

\* a loader.load call: while it is in flight, `loaded` is the byte count of its
\* last progress event and `total` the total its progress events carry (-1 before
\* the first one; 0 when the length is not computable)
NewRequest(modelName) ==
    [modelName |-> modelName, state |-> "pending", loaded |-> 0, total |-> -1]

\* the quiz's state on a page without the quiz
QuizIdle ==
    /\ currentQuestion = 0 /\ score = 0 /\ questionElement = ""
    /\ optionsElement = [kind |-> "none"]
    /\ attempt = [number |-> 0, clicks |-> 0, correct |-> 0]

SingleIdle ==
    /\ object = 0 /\ objToRender = "" /\ scene = {} /\ camera = NewCamera(0)
    /\ controls = NewControls(NewCamera(0)) /\ renderer = SizeOf(window)
    /\ loadingBar = "" /\ loadingProgress = <<0, 1>> /\ ambientintensity = 0
    /\ ambientLight = 0 /\ info = [display |-> "", innerText |-> <<>>]

InitDual ==
    /\ page = "dual"
    /\ window \in WindowSizes
    /\ loadingSpinner = "block"
    /\ requests = <<NewRequest(DualModelName(1)), NewRequest(DualModelName(2))>>
    /\ syncEnabled = TRUE
    /\ modelsLoaded = 0
    /\ objects = <<>>
    /\ syncButton = "#00FF00"
    /\ lastChange = 0
    /\ camera1 = ScriptRig(window).c1 /\ camera2 = ScriptRig(window).c2
    /\ controls1 = ScriptRig(window).k1 /\ controls2 = ScriptRig(window).k2
    /\ scene1 = SceneLights(AmbientOf(1)) /\ scene2 = SceneLights(AmbientOf(2))
    /\ renderer1 = SizeOf(window) /\ renderer2 = SizeOf(window)
    /\ canvas1 = CanvasOf(window) /\ canvas2 = CanvasOf(window)
    /\ ev = Event("script", 0, 0, ScriptRig(window).copies, ScriptRig(window).changes,
                  <<Pose(ScriptRig(window).c1), Pose(ScriptRig(window).c2)>>)
    /\ SingleIdle /\ QuizIdle
    /\ applied = NotApplied

----------------------------------------------------------------------------
(* Dual view: the handlers *)

SetRig(r) ==
    /\ camera1' = r.c1 /\ camera2' = r.c2
    /\ controls1' = r.k1 /\ controls2' = r.k2

\* loader.load's onLoad of viewport v, lines 35-66, with the parsed scene's box
DualLoadSuccess(v, bbox) ==
    /\ page = "dual"
    /\ requests[v].state = "pending"
    /\ requests' = [requests EXCEPT ![v].state = "loaded"]
    /\ IF v = 1
       THEN /\ scene1' = scene1 \cup {DualModel(v, bbox)}
            /\ camera1' = [camera1 EXCEPT !.position = Framing(bbox, ZoomFactorOf(v))]
            /\ controls1' = [controls1 EXCEPT !.target = BoxCenter(bbox)]
            /\ UNCHANGED <<scene2, camera2, controls2>>
       ELSE /\ scene2' = scene2 \cup {DualModel(v, bbox)}
            /\ camera2' = [camera2 EXCEPT !.position = Framing(bbox, ZoomFactorOf(v))]
            /\ controls2' = [controls2 EXCEPT !.target = BoxCenter(bbox)]
            /\ UNCHANGED <<scene1, camera1, controls1>>
    /\ objects' = Append(objects, DualModel(v, bbox))
    /\ modelsLoaded' = modelsLoaded + 1
    /\ loadingSpinner' = IF BothLoaded(modelsLoaded + 1) THEN "none" ELSE loadingSpinner
    /\ ev' = Event("load", v, v, <<>>, <<>>, <<>>)
    /\ UNCHANGED <<quizVars, page, applied, window, syncEnabled, syncButton, lastChange, renderer1,
                   renderer2, canvas1, canvas2, singleVars>>

\* a failure that ends the other viewport's load as well
DualLoadErrorFatal(v) ==
    /\ page = "dual"
    /\ requests[v].state = "pending"
    /\ requests' = [requests EXCEPT ![v].state = "failed", ![3 - v].state = "failed"]
    /\ ev' = Event("error", v, v, <<>>, <<>>, <<>>)
    /\ UNCHANGED <<quizVars, page, applied, window, loadingSpinner, dualVars, singleVars>>

\* a failed load of viewport v: loader.load is given no onError, so GLTFLoader only
\* writes the error to the console
DualLoadError(v) ==
    /\ page = "dual"
    /\ requests[v].state = "pending"
    /\ requests' = [requests EXCEPT ![v].state = "failed"]
    /\ ev' = Event("error", v, v, <<>>, <<>>, <<>>)
    /\ UNCHANGED <<quizVars, page, applied, window, loadingSpinner, dualVars, singleVars>>

\* the window is resized to `win` and onWindowResize(), lines 99-119, runs
DualOnWindowResize(win, delta1, delta2) ==
    /\ page = "dual"
    /\ delta1 \in Deltas(controls1) /\ delta2 \in Deltas(controls2)
    /\ window' = win
    /\ canvas1' = CanvasOf(win) /\ canvas2' = CanvasOf(win)
    /\ renderer1' = SizeOf(win) /\ renderer2' = SizeOf(win)
    /\ LET r == ResizeRig(Rig, win, delta1, delta2, syncEnabled, TRUE)
       IN /\ SetRig(r)
          /\ lastChange' = LastChange(r, lastChange)
          /\ ev' = Event("resize", 0, 0, r.copies, r.changes, <<>>)
                       @@ [again |-> ev.type = "resize" /\ window = win] @@ FirstSync
    /\ UNCHANGED <<quizVars, page, applied, loadingSpinner, requests, syncEnabled, modelsLoaded, objects,
                   syncButton, scene1, scene2, singleVars>>

\* a frame that draws both viewports before the cameras are synchronised
DualAnimateRenderFirst ==
    /\ page = "dual"
    /\ LET r == AnimateSync(Rig, syncEnabled)
       IN SetRig(r) /\ ev' = Event("animate", 0, 0, r.copies, r.changes,
                                    <<Pose(camera1), Pose(camera2)>>) @@ FirstSync
    /\ UNCHANGED <<quizVars, page, applied, window, loadingSpinner, requests, syncEnabled, modelsLoaded,
                   objects, syncButton, lastChange, scene1, scene2, renderer1, renderer2,
                   canvas1, canvas2, singleVars>>

\* one animation frame: animate(), lines 125-145
DualAnimate ==
    /\ page = "dual"
    /\ LET r == AnimateSync(Rig, syncEnabled)
       IN SetRig(r) /\ ev' = Event("animate", 0, 0, r.copies, r.changes,
                                    <<Pose(r.c1), Pose(r.c2)>>) @@ FirstSync
    /\ UNCHANGED <<quizVars, page, applied, window, loadingSpinner, requests, syncEnabled, modelsLoaded,
                   objects, syncButton, lastChange, scene1, scene2, renderer1, renderer2,
                   canvas1, canvas2, singleVars>>

\* the two colours the wrong way round
ButtonColorSwapped(sync) == IF sync THEN "#FF0000" ELSE "#00FF00"

\* a click on #sync_button: toggleSync(), lines 150-164
ButtonColor(sync) == IF sync THEN "#00FF00" ELSE "#FF0000"

\* a toggle that synchronises the cameras itself when it enables sync
ToggleSyncCopies ==
    /\ page = "dual"
    /\ syncEnabled' = ~syncEnabled
    /\ syncButton' = ButtonColor(~syncEnabled)
    /\ camera2' = IF syncEnabled THEN camera2
                  ELSE [camera2 EXCEPT !.position = camera1.position,
                                       !.quaternion = camera1.quaternion]
    /\ ev' = Event("toggle", 0, 0, <<>>, <<>>, <<>>)
               @@ [again |-> ev.type = "toggle",
                   was |-> [syncEnabled |-> syncEnabled, syncButton |-> syncButton]]
    /\ UNCHANGED <<quizVars, page, applied, window, loadingSpinner, requests, modelsLoaded, objects,
                   lastChange, camera1, controls1, controls2, scene1, scene2,
                   renderer1, renderer2, canvas1, canvas2, singleVars>>

ToggleSync ==
    /\ page = "dual"
    /\ syncEnabled' = ~syncEnabled
    /\ syncButton' = ButtonColor(~syncEnabled)
    /\ ev' = Event("toggle", 0, 0, <<>>, <<>>, <<>>)
               @@ [again |-> ev.type = "toggle",
                   was |-> [syncEnabled |-> syncEnabled, syncButton |-> syncButton]]
    /\ UNCHANGED <<quizVars, page, applied, window, loadingSpinner, requests, modelsLoaded, objects,
                   lastChange, camera1, camera2, controls1, controls2, scene1, scene2,
                   renderer1, renderer2, canvas1, canvas2, singleVars>>

\* a drag or wheel turn on viewport v: OrbitControls, when enabled, takes the
\* rotate/dolly delta and calls update(), which leaves the camera at `offset`
\* from the target and dispatches 'change' to the listeners of lines 189-201
DualInteract(v, offset) ==
    /\ page = "dual"
    /\ Ctl(Rig, v).enabled
    /\ LET r == Update(Rig, v, <<offset>>, syncEnabled, TRUE)
           d == IF v = 1 THEN [r EXCEPT !.k1.sphericalDelta = TRUE]
                         ELSE [r EXCEPT !.k2.sphericalDelta = TRUE]
       IN /\ SetRig(d)
          /\ lastChange' = LastChange(d, lastChange)
          /\ ev' = Event("interact", v, 0, d.copies, d.changes, <<>>) @@ FirstSync
    /\ UNCHANGED <<quizVars, page, applied, window, loadingSpinner, requests, syncEnabled, modelsLoaded,
                   objects, syncButton, scene1, scene2, renderer1, renderer2,
                   canvas1, canvas2, singleVars>>

NextDual ==
    \/ \E v \in 1..2 : \E bbox \in DualAssets(v) : DualLoadSuccess(v, bbox)
    \/ \E v \in 1..2 : DualLoadError(v)
    \/ \E win \in WindowSizes : \E d1 \in Deltas(controls1), d2 \in Deltas(controls2) :
          DualOnWindowResize(win, d1, d2)
    \/ DualAnimate
    \/ ToggleSync
    \/ \E v \in 1..2, offset \in UserOffsets : DualInteract(v, offset)

SpecDual == InitDual /\ [][NextDual]_vars

----------------------------------------------------------------------------
(* Single view: src/Education/3D-Anatomy-Browser/js/main.js *)

MaxLoads == 2         \* loadModel calls in one run of the page
TotalBytes == 1       \* size of an asset, in progress steps

\* the cases of the switch on modelName, lines 62-121: scaleFactor and
\* ambientintensity (tenths); a name with no case keeps 1 and the present intensity
ModelTable ==
    [lowerlimb_2_diffuse              |-> [scaleFactor |-> <<3, 4>>, ambientintensity |-> 8],
     lowerlimb_2_polarized            |-> [scaleFactor |-> <<3, 4>>, ambientintensity |-> 12],
     lowerlimb_diffuse                |-> [scaleFactor |-> <<1, 1>>, ambientintensity |-> 6],
     lowerlimb_polarized              |-> [scaleFactor |-> <<3, 4>>, ambientintensity |-> 10],
     lowerlimb_polarized_Annotations  |-> [scaleFactor |-> <<4, 5>>, ambientintensity |-> 10],
     lowerlimb_diffuse_Annotations    |-> [scaleFactor |-> <<4, 5>>, ambientintensity |-> 5],
     Upperlimb_diffuse                |-> [scaleFactor |-> <<1, 1>>, ambientintensity |-> 5],
     Upperlimb_diffuse_Annotations    |-> [scaleFactor |-> <<1, 1>>, ambientintensity |-> 5],
     Upperlimb_diffuse_quiz           |-> [scaleFactor |-> <<1, 1>>, ambientintensity |-> 5],
     Upperlimb_polarized              |-> [scaleFactor |-> <<1, 1>>, ambientintensity |-> 12],
     Upperlimb_polarized_Annotations  |-> [scaleFactor |-> <<1, 1>>, ambientintensity |-> 12]]

\* every name the switch can meet: the table's names and one without a case
ModelNames == DOMAIN ModelTable \cup {"other_model"}

\* the values of the #model-select options of a page: one name with a case of its
\* own and one that falls to the default
SelectOptions == {"lowerlimb_2_diffuse", "other_model"}

\* the switch without its per-model factors
BaseScaleFactorOne(modelName) == <<1, 1>>

BaseScaleFactor(modelName) ==
    IF modelName \in DOMAIN ModelTable THEN ModelTable[modelName].scaleFactor ELSE <<1, 1>>

AmbientIntensity(modelName, present) ==
    IF modelName \in DOMAIN ModelTable THEN ModelTable[modelName].ambientintensity
    ELSE present

\* lines 130-133: scaleFactor *= desiredSize / maxDimension
SingleScale(modelName, bbox) == FMul(BaseScaleFactor(modelName), ScaleToFit(bbox))

SingleModel(i, modelName, bbox) ==
    [kind |-> "model", id |-> i, modelName |-> modelName, bbox |-> bbox,
     scale |-> SingleScale(modelName, bbox)]

\* lines 189-204: the three lights of the scene
SingleLights ==
    { [kind |-> "AmbientLight", z |-> 0], [kind |-> "DirectionalLight", z |-> 1],
      [kind |-> "DirectionalLight", z |-> -1] }

\* the synchronous part of loadModel, lines 36-46
ResetCamera(cam) ==
    [cam EXCEPT !.position = Vec(0, 0, 50),
                !.quaternion = LookAt(Vec(0, 0, 50), Zero3)]

DualIdle ==
    /\ syncEnabled = FALSE /\ modelsLoaded = 0 /\ objects = <<>> /\ syncButton = ""
    /\ lastChange = 0
    /\ camera1 = NewCamera(0) /\ camera2 = NewCamera(0)
    /\ controls1 = NewControls(NewCamera(0)) /\ controls2 = NewControls(NewCamera(0))
    /\ scene1 = {} /\ scene2 = {}
    /\ renderer1 = SizeOf(window) /\ renderer2 = SizeOf(window)
    /\ canvas1 = CanvasOf(window) /\ canvas2 = CanvasOf(window)

FullSize(win) == [width |-> <<win.innerWidth, 1>>, height |-> win.innerHeight]
FullAspect(win) == Frac(win.innerWidth, win.innerHeight)

\* the state when the module script has run (lines 8-305)
InitSingle ==
    /\ page = "single"
    /\ window \in WindowSizes
    /\ objToRender \in SelectOptions
    /\ object = 0
    /\ requests = <<NewRequest(objToRender)>>
    /\ loadingSpinner = "block"
    /\ loadingBar = "block"
    /\ loadingProgress = <<0, 1>>
    /\ scene = SingleLights
    /\ camera = [ResetCamera(NewCamera(0)) EXCEPT !.aspect = FullAspect(window)]
    /\ controls = NewControls(ResetCamera(NewCamera(0)))
    /\ renderer = FullSize(window)
    /\ ambientintensity = 5
    /\ ambientLight = 5
    /\ info = [display |-> "", innerText |-> <<>>]
    /\ ev = Event("script", 0, 0, <<>>, <<>>, <<Pose(camera)>>)
    /\ DualIdle /\ QuizIdle
    /\ applied = NotApplied

----------------------------------------------------------------------------
(* Single view: the handlers *)

\* loadModel(modelName), lines 35-47: the part that runs before the loader answers
LoadModel(modelName) ==
    /\ loadingSpinner' = "block"
    /\ camera' = ResetCamera(camera)
    /\ loadingBar' = "block"
    /\ requests' = Append(requests, NewRequest(modelName))

\* 'change' on #model-select, lines 170-180
RemoveObject(children, obj) == { c \in children : ~(c.kind = "model" /\ c.id = obj) }

SelectModel(modelName) ==
    /\ page = "single"
    /\ modelName # objToRender
    /\ Len(requests) < MaxLoads
    /\ objToRender' = modelName
    /\ scene' = IF object # 0 THEN RemoveObject(scene, object) ELSE scene
    /\ LoadModel(modelName)
    /\ ev' = Event("select", 0, Len(requests) + 1, <<>>, <<>>, <<>>)
    /\ UNCHANGED <<quizVars, page, applied, window, object, controls, renderer, loadingProgress,
                   ambientintensity, ambientLight, info, dualVars>>

\* the loader's onLoad of request i, lines 48-153
SingleLoadSuccess(i, bbox) ==
    /\ page = "single"
    /\ i \in DOMAIN requests /\ requests[i].state = "pending"
    /\ requests' = [requests EXCEPT ![i].state = "loaded", ![i].loaded = 0,
                                    ![i].total = -1]
    /\ object' = i
    /\ ambientintensity' = AmbientIntensity(requests[i].modelName, ambientintensity)
    /\ ambientLight' = AmbientIntensity(requests[i].modelName, ambientintensity)
    /\ scene' = scene \cup {SingleModel(i, requests[i].modelName, bbox)}
    /\ camera' = [camera EXCEPT !.position = Framing(bbox, 10)]
    /\ controls' = [controls EXCEPT !.target = BoxCenter(bbox)]
    /\ loadingBar' = "none"
    /\ loadingSpinner' = "none"
    /\ ev' = Event("load", 0, i, <<>>, <<>>, <<>>)
    /\ UNCHANGED <<quizVars, page, applied, window, objToRender, renderer, loadingProgress, info, dualVars>>

\* the loader's onProgress of request i, lines 154-158, with the event's byte
\* counts: `loaded` never decreases and `total` is the same in every event of a
\* request.  The browser keeps the old width when the value written is not a
\* finite percentage.
Progress(loaded, total) == FMul(Frac(loaded, total), <<100, 1>>)

SingleLoadProgress(i, loaded, total) ==
    /\ page = "single"
    /\ i \in DOMAIN requests /\ requests[i].state = "pending"
    /\ loaded >= requests[i].loaded
    /\ requests[i].total \in {-1, total}
    /\ total = 0 \/ loaded <= total
    /\ requests' = [requests EXCEPT ![i].loaded = loaded, ![i].total = total]
    /\ loadingProgress' = IF Progress(loaded, total)[2] # 0 THEN Progress(loaded, total)
                          ELSE loadingProgress
    /\ ev' = Event("progress", 0, i, <<>>, <<>>, <<Progress(loaded, total)>>)
    /\ UNCHANGED <<quizVars, page, applied, window, loadingSpinner, object, objToRender, scene, camera,
                   controls, renderer, loadingBar, ambientintensity, ambientLight,
                   info, dualVars>>

\* the loader's onError of request i, lines 159-164
SingleLoadError(i) ==
    /\ page = "single"
    /\ i \in DOMAIN requests /\ requests[i].state = "pending"
    /\ requests' = [requests EXCEPT ![i].state = "failed", ![i].loaded = 0,
                                    ![i].total = -1]
    /\ loadingSpinner' = "none"
    /\ ev' = Event("error", 0, i, <<>>, <<>>, <<>>)
    /\ UNCHANGED <<quizVars, page, applied, window, object, objToRender, scene, camera, controls, renderer,
                   loadingBar, loadingProgress, ambientintensity, ambientLight, info,
                   dualVars>>

\* the window is resized to `win` and onWindowResize(), lines 246-255, runs
SingleOnWindowResize(win) ==
    /\ page = "single"
    /\ window' = win
    /\ camera' = [camera EXCEPT !.aspect = FullAspect(win)]
    /\ renderer' = FullSize(win)
    /\ ev' = Event("resize", 0, 0, <<>>, <<>>, <<Pose(camera)>>)
               @@ [again |-> ev.type = "resize" /\ window = win]
    /\ UNCHANGED <<quizVars, page, applied, loadingSpinner, requests, object, objToRender, scene, controls,
                   loadingBar, loadingProgress, ambientintensity, ambientLight, info,
                   dualVars>>

\* one animation frame: animate(), lines 299-302
SingleAnimate ==
    /\ page = "single"
    /\ ev' = Event("animate", 0, 0, <<>>, <<>>, <<Pose(camera)>>)
    /\ UNCHANGED <<quizVars, page, applied, window, loadingSpinner, requests, singleVars, dualVars>>

\* a drag or wheel turn: OrbitControls.update() leaves the camera at `offset` from
\* the target; main.js listens to no 'change'
SingleInteract(offset) ==
    /\ page = "single"
    /\ controls.enabled
    /\ camera' = [camera EXCEPT !.position = VAdd(controls.target, offset),
                                !.quaternion = LookAt(VAdd(controls.target, offset),
                                                      controls.target)]
    /\ controls' = [controls EXCEPT !.lastPosition = VAdd(controls.target, offset),
                                    !.lastQuaternion = LookAt(VAdd(controls.target, offset),
                                                              controls.target),
                                    !.sphericalDelta = FALSE]
    /\ ev' = Event("interact", 0, 0, <<>>, <<>>, <<>>)
    /\ UNCHANGED <<quizVars, page, applied, window, loadingSpinner, requests, object, objToRender, scene,
                   renderer, loadingBar, loadingProgress, ambientintensity, ambientLight,
                   info, dualVars>>

\* the names of the objects a ray can hit, as sequences of characters: the
\* reserved name 'Mesh' and the name of a part of a model
MeshName == <<"M", "e", "s", "h">>
HitNames == { MeshName, <<"m", "_", "t", "_", "a">> }

\* raycaster.intersectObjects(scene.children, true): the names of the objects hit,
\* nearest first; only a model's meshes can be hit
Intersects(children) ==
    IF Models(children) = {} THEN {<<>>}
    ELSE {<<>>} \cup { <<a>> : a \in HitNames } \cup { <<a, b>> : a \in HitNames, b \in HitNames }

\* name.replace('_', ' '): only the first underscore
ReplaceFirstUnderscore(name) ==
    [i \in DOMAIN name |->
        IF name[i] = "_" /\ \A j \in 1..(i - 1) : name[j] # "_" THEN " " ELSE name[i]]

\* name.replace(/_/g, ' ')
ReplaceUnderscores(name) ==
    [i \in DOMAIN name |-> IF name[i] = "_" THEN " " ELSE name[i]]

\* 'pointerdown' on the window: onPointerDown, lines 257-290
OnPointerDown(intersects) ==
    /\ page = "single"
    /\ intersects \in Intersects(scene)
    /\ info' = IF intersects # <<>>
               THEN IF intersects[1] # MeshName
                    THEN [display |-> "block", innerText |-> ReplaceUnderscores(intersects[1])]
                    ELSE [info EXCEPT !.display = "none"]
               ELSE [info EXCEPT !.display = "none"]
    /\ ev' = Event("pointerdown", 0, 0, <<>>, <<>>, <<>>) @@ [intersects |-> intersects]
    /\ UNCHANGED <<quizVars, page, applied, window, loadingSpinner, requests, object, objToRender, scene,
                   camera, controls, renderer, loadingBar, loadingProgress, ambientintensity,
                   ambientLight, dualVars>>

NextSingle ==
    \/ \E intersects \in Intersects(scene) : OnPointerDown(intersects)
    \/ \E modelName \in SelectOptions : SelectModel(modelName)
    \/ \E i \in 1..MaxLoads, bbox \in Assets : SingleLoadSuccess(i, bbox)
    \/ \E i \in 1..MaxLoads, loaded, total \in 0..TotalBytes : SingleLoadProgress(i, loaded, total)
    \/ \E i \in 1..MaxLoads : SingleLoadError(i)
    \/ \E win \in WindowSizes : SingleOnWindowResize(win)
    \/ SingleAnimate
    \/ \E offset \in UserOffsets : SingleInteract(offset)

SpecSingle == InitSingle /\ [][NextSingle]_vars

----------------------------------------------------------------------------
(* The scaling rule of the two onLoad callbacks, applied to every model name of  *)
(* the switch and to boxes of every shape                                        *)

BoxExtents == {10, 20, 40}
ScaleBoxes ==
    { [min |-> Zero3, max |-> Vec(x, y, z)] : x \in BoxExtents, y \in BoxExtents,
                                              z \in BoxExtents }

InitScale ==
    /\ page = "scale"
    /\ window \in WindowSizes
    /\ loadingSpinner = "" /\ requests = <<>>
    /\ ev = Event("none", 0, 0, <<>>, <<>>, <<>>)
    /\ applied = NotApplied
    /\ SingleIdle /\ DualIdle /\ QuizIdle

\* main.js lines 53-133 for modelName
ApplySingleScale(modelName, bbox) ==
    /\ page = "scale"
    /\ applied' = [view |-> "single", modelName |-> modelName, bbox |-> bbox,
                   maxDimension |-> MaxDimension(bbox),
                   scale |-> SingleModel(1, modelName, bbox).scale]
    /\ UNCHANGED <<quizVars, page, window, loadingSpinner, requests, ev, dualVars, singleVars>>

\* part_000 lines 38-48 for viewport v
ApplyDualScale(v, bbox) ==
    /\ page = "scale"
    /\ applied' = [view |-> "dual", modelName |-> DualModelName(v), bbox |-> bbox,
                   maxDimension |-> MaxDimension(bbox),
                   scale |-> DualModel(v, bbox).scale]
    /\ UNCHANGED <<quizVars, page, window, loadingSpinner, requests, ev, dualVars, singleVars>>

NextScale ==
    \/ \E modelName \in ModelNames, bbox \in ScaleBoxes : ApplySingleScale(modelName, bbox)
    \/ \E v \in 1..2, bbox \in ScaleBoxes : ApplyDualScale(v, bbox)

SpecScale == InitScale /\ [][NextScale]_vars

----------------------------------------------------------------------------
(* The quiz: src/Education/3D-Anatomy-Browser/js/upperlimb_quiz.js, and the same *)
(* code with other questions at the end of src/unnamed/part_000.  It shares no   *)
(* state with the viewers.                                                       *)

MaxAttempts == 2      \* attempts at the quiz in one run of the page

\* quizData of upperlimb_quiz.js, lines 1-54
UpperlimbQuizData ==
    << [question |-> "Name structure number 1",
        options |-> << "M. subscapularis",
                       "M. supraspinatus",
                       "M. teres minor ",
                       "M. infraspinatus",
                       "M. deltoideus",
                       "M. teres major",
                       "M. latissimus dorsi" >>,
        answer |-> "M. teres major"],
       [question |-> "Which insertion of structure 2 is correct?",
        options |-> << "Tuberculum minus",
                       "tuberculum majus",
                       "tuberculum infraglenoidale",
                       "crista tuberculi minoris",
                       "crista tuberculi majoris" >>,
        answer |-> "crista tuberculi minoris"],
       [question |-> "Which nerve innervates structure 3?",
        options |-> << "n. dorsalis scapulae",
                       "n. subscapularis",
                       "n. suprascapularis",
                       "n. infrascapularis",
                       "n. thoracicus longus",
                       "n. pectoralis lateralis" >>,
        answer |-> "n. suprascapularis"],
       [question |-> "Which origin of structure 4 is incorrect?",
        options |-> << "Transverse processes of the thoracic vertebrae",
                       "Spinous processes of the thoracic vertebrae",
                       "Nuchal ligament",
                       "Superior nuchal line",
                       "External occipital protuberance",
                       "Supraspinous ligament" >>,
        answer |-> "Transverse processes of the thoracic vertebrae"],
       [question |-> "Which blood vessel provides structure number 5?",
        options |-> << "a. basilica",
                       "a. brachialis",
                       "a. mediana",
                       "a. profunda brachii",
                       "a. axillary",
                       "a. radialis" >>,
        answer |-> "a. brachialis"],
       [question |-> "Name structure 6",
        options |-> << "M. serratus anterior",
                       "M. pectoralis major",
                       "M. pectoralis minor",
                       "M. intercostalis externi",
                       "M. transversus thoracis",
                       "M. coracobrachialis" >>,
        answer |-> "M. pectoralis minor"],
       [question |-> "What is the correct origin of structure 7?",
        options |-> << "epicondyle medialis humeri and coronoid process ulnae",
                       "epicondyle medialis humeri and olecranon",
                       "epicondyle lateralis humeri and coronoid process ulnae",
                       "epicondyle lateralis humeri and olecranon",
                       "epicondyle lateralis humeri and posterior border of ulna",
                       "epicondyle lateralis humeri and margo posterior humeri" >>,
        answer |-> "epicondyle lateralis humeri and posterior border of ulna"],
       [question |-> "What are the functions of structure 8?",
        options |-> << "retroflexion of the shoulder joint",
                       "anteflexion of the shoulder joint",
                       "extension of the elbow",
                       "flexion of the elbow",
                       "retroflexion of the shoulder joint and extension of the elbow",
                       "anteflexion of the shoulder joint and flexion of the elbow" >>,
        answer |-> "extension of the elbow"],
       [question |-> "What is the insertion of structure 9",
        options |-> << "styloid process of the ulnae",
                       "styloid process of the radius",
                       "caput ulnae",
                       "scaphoid bone",
                       "metacarpal 1",
                       "os trapezium" >>,
        answer |-> "styloid process of the radius"],
       [question |-> "Which nerve innervates structure 10?",
        options |-> << "n radialis ramus profundus",
                       "n radialis ramus superfiscialis",
                       "n ulnaris",
                       "n medianus",
                       "n musculocutaneous",
                       "n antebrachialis" >>,
        answer |-> "n medianus"] >>

\* quizData of part_000, lines 203-264
LowerlimbQuizData ==
    << [question |-> "Name structure number 1",
        options |-> << "m quadratus lumborum",
                       "m iliacus",
                       "m psoas major",
                       "m psoas minor",
                       "m multifidus",
                       "m transversus abdominis" >>,
        answer |-> "m iliacus"],
       [question |-> "Name structure number 2",
        options |-> << "m vastus lateralis",
                       "m vastus intermedius",
                       "m tractus iliotibialis",
                       "m tensor facia latae",
                       "m vastus medialis",
                       "m rectus femoris" >>,
        answer |-> "m tensor facia latae"],
       [question |-> "Name structure number 3",
        options |-> << "n peroneus communis",
                       "n obturatorius",
                       "n ischiadicus",
                       "n femoralis",
                       "n tibialis",
                       "n fibularis" >>,
        answer |-> "n femoralis"],
       [question |-> "Which of the following statements is correct for structure 4?",
        options |-> << "this nerve innervates the m adductor longus",
                       "this artery supplies blood to the tensor fascia latae",
                       "this artery supplies blood to the vastus lateralis",
                       "this vein receives blood from the v saphena magna",
                       "this vein goes to the external iliac crest",
                       "this artery is located in the lacuna vasorum" >>,
        answer |-> "this artery is located in the lacuna vasorum"],
       [question |-> "Which statement is false for structure 5?",
        options |-> << "the origin of this muscle is the anterior superior iliac spine",
                       "the insertion of this muscle is the facies medialis of the tibia, medial to the tuberosity",
                       "the innervation of this muscle is the n femoralis",
                       "the blood supply of this muscle is the a circumflexa femoris medialis",
                       "this muscle does, among other things, flexion and abduction of the thigh",
                       "this muscle is part of the pes anserinus" >>,
        answer |-> "the blood supply of this muscle is the a circumflexa femoris medialis"],
       [question |-> "Name structure number 6",
        options |-> << "m adductor longus",
                       "m adductor brevis",
                       "m adductor magnus",
                       "m adductor minimus",
                       "m pectineus",
                       "m gracilis" >>,
        answer |-> "m adductor longus"],
       [question |-> "Name structure number 7",
        options |-> << "a tibialis anterior",
                       "a tibialis posterior",
                       "n peroneus superfiscialis",
                       "n peroneus profundus",
                       "v saphenous parva",
                       "v saphena magna" >>,
        answer |-> "v saphena magna"],
       [question |-> "What structure is not in this compartment (number 8)?",
        options |-> << "a tibialis posterior",
                       "a peronea",
                       "n tibialis",
                       "m plantaris",
                       "m tibialis posterior",
                       "m flexor hallucis longus" >>,
        answer |-> "m plantaris"],
       [question |-> "What is the origin of structure 9?",
        options |-> << "L4-S3",
                       "L5-S2",
                       "L1-L4",
                       "T12-L5",
                       "S1-S3",
                       "S1-Co2" >>,
        answer |-> "L4-S3"],
       [question |-> "What is the insertion of structure 10?",
        options |-> << "fossa intertrochanterica femoris",
                       "linea intertrochanterica femoris",
                       "greater trochanter femoris",
                       "lesser trochanter femoris",
                       "linea aspera labium mediale",
                       "linea aspera labium laterale" >>,
        answer |-> "greater trochanter femoris"] >>

quizData == IF page = "part_000_quiz" THEN LowerlimbQuizData ELSE UpperlimbQuizData

\* the text a button shows for the string it was given: white space at its end
\* is not rendered (one option of upperlimb_quiz.js ends in a space)
InnerText(text) == IF text = "M. teres minor " THEN "M. teres minor" ELSE text

\* showQuestion(): the question and one button per option
ShowQuestion(cq) ==
    /\ questionElement' = quizData[cq + 1].question
    /\ optionsElement' =
          [kind |-> "buttons",
           buttons |-> [i \in DOMAIN quizData[cq + 1].options |->
                           InnerText(quizData[cq + 1].options[i])]]

\* showResult(): the score, the answers and the Retake button
ShowResult(points) ==
    /\ questionElement' = ""
    /\ optionsElement' =
          [kind |-> "result", score |-> points, length |-> Len(quizData),
           answers |-> [i \in DOMAIN quizData |-> quizData[i].answer]]

\* two points for a right answer
ScoredTwice(points, text, answer) == IF text = answer THEN points + 2 ELSE points

\* if (selectedButton.innerText === answer) score++
Scored(points, text, answer) == IF text = answer THEN points + 1 ELSE points

\* the result shown one question early
HasNextQuestionEarly(cq) == cq < Len(quizData) - 1

\* if (currentQuestion < quizData.length) showQuestion() else showResult()
HasNextQuestion(cq) == cq < Len(quizData)

\* the state when the script has run: showQuestion() for question 0
InitQuiz ==
    /\ page \in {"upperlimb_quiz", "part_000_quiz"}
    /\ window = [innerWidth |-> 8, innerHeight |-> 6]
    /\ loadingSpinner = "" /\ requests = <<>>
    /\ ev = Event("script", 0, 0, <<>>, <<>>, <<>>)
    /\ applied = NotApplied
    /\ SingleIdle /\ DualIdle
    /\ currentQuestion = 0 /\ score = 0
    /\ questionElement = quizData[1].question
    /\ optionsElement = [kind |-> "buttons",
                         buttons |-> [i \in DOMAIN quizData[1].options |->
                                         InnerText(quizData[1].options[i])]]
    /\ attempt = [number |-> 1, clicks |-> 0, correct |-> 0]

\* a click on the b-th option button: selectAnswer(e)
SelectAnswer(b) ==
    /\ page \in {"upperlimb_quiz", "part_000_quiz"}
    /\ optionsElement.kind = "buttons" /\ b \in DOMAIN optionsElement.buttons
    /\ score' = Scored(score, optionsElement.buttons[b], quizData[currentQuestion + 1].answer)
    /\ currentQuestion' = currentQuestion + 1
    /\ IF HasNextQuestion(currentQuestion + 1)
       THEN ShowQuestion(currentQuestion + 1)
       ELSE ShowResult(score')
    /\ attempt' = [attempt EXCEPT
                      !.clicks = @ + 1,
                      !.correct = IF quizData[currentQuestion + 1].options[b]
                                       = quizData[currentQuestion + 1].answer
                                  THEN @ + 1 ELSE @]
    /\ ev' = Event("answer", 0, 0, <<>>, <<>>, <<>>)
    /\ UNCHANGED <<page, applied, window, loadingSpinner, requests, dualVars, singleVars>>

\* a retake that keeps the points of the attempt before
RetakeQuizKeepsScore ==
    /\ page \in {"upperlimb_quiz", "part_000_quiz"}
    /\ optionsElement.kind = "result"
    /\ attempt.number < MaxAttempts
    /\ currentQuestion' = 0
    /\ score' = score
    /\ ShowQuestion(0)
    /\ attempt' = [number |-> attempt.number + 1, clicks |-> 0, correct |-> 0]
    /\ ev' = Event("retake", 0, 0, <<>>, <<>>, <<>>)
               @@ [was |-> [currentQuestion |-> currentQuestion, score |-> score]]
    /\ UNCHANGED <<page, applied, window, loadingSpinner, requests, dualVars, singleVars>>

\* a click on the Retake Quiz button of the result: retakeQuiz()
RetakeQuiz ==
    /\ page \in {"upperlimb_quiz", "part_000_quiz"}
    /\ optionsElement.kind = "result"
    /\ attempt.number < MaxAttempts
    /\ currentQuestion' = 0
    /\ score' = 0
    /\ ShowQuestion(0)
    /\ attempt' = [number |-> attempt.number + 1, clicks |-> 0, correct |-> 0]
    /\ ev' = Event("retake", 0, 0, <<>>, <<>>, <<>>)
               @@ [was |-> [currentQuestion |-> currentQuestion, score |-> score]]
    /\ UNCHANGED <<page, applied, window, loadingSpinner, requests, dualVars, singleVars>>

NextQuiz ==
    \/ \E b \in 1..7 : SelectAnswer(b)
    \/ RetakeQuiz

SpecQuiz == InitQuiz /\ [][NextQuiz]_vars

Init == InitDual \/ InitSingle
Next == NextDual \/ NextSingle
Spec == Init /\ [][Next]_vars

----------------------------------------------------------------------------
(* Properties *)

RequestsDone == \A i \in DOMAIN requests : requests[i].state # "pending"

\* C1: dual view, sync enabled: when a 'change' listener has run, both cameras have
\* the same position and orientation, and it is the pose the emitting viewport had
\* when it dispatched the event (for drags on either viewport and for the change
\* events a resize dispatches, in any order with ticks).
C1_SyncAfterChange ==
    (page = "dual" /\ syncEnabled) =>
        \A i \in DOMAIN ev.changes :
            ev.changes[i].heard =>
                /\ ev.changes[i].after1 = ev.changes[i].after2
                /\ ev.changes[i].after1 = ev.changes[i].pose

C1_Witness ==
    /\ page = "dual" /\ syncEnabled
    /\ ev.type = "interact" /\ ev.vp = 2 /\ Len(ev.changes) = 1
    /\ Pose(camera1) = ev.changes[1].pose
    /\ camera1.position # NewCamera(ZoomFactor1).position

\* C2: dual view, sync disabled: a drag on one viewport leaves the other
\* viewport's camera position and orientation as they were, and so does a tick.
C2_NoCopyWhenSyncOff ==
    [][(page = "dual" /\ ~syncEnabled) =>
         /\ (ev'.type = "interact" /\ ev'.vp = 1) => Pose(camera2') = Pose(camera2)
         /\ (ev'.type = "interact" /\ ev'.vp = 2) => Pose(camera1') = Pose(camera1)
         /\ ev'.type = "animate" =>
                Pose(camera1') = Pose(camera1) /\ Pose(camera2') = Pose(camera2)]_vars

C2_Witness ==
    /\ page = "dual" /\ ~syncEnabled
    /\ ev.type = "interact" /\ ev.vp = 1 /\ Len(ev.changes) = 1
    /\ Pose(camera1) = ev.changes[1].pose
    /\ Pose(camera2) # Pose(camera1)

\* C3: single view: the scene holds at most one loaded model in every reachable
\* state, also when a model is selected while an earlier load is in flight.
C3_AtMostOneModel ==
    page = "single" => Cardinality(Models(scene)) <= 1

\* C4: dual view: when both loads have ended, in success or in error, the spinner
\* is hidden.
C4_SpinnerHiddenWhenDone ==
    (page = "dual" /\ RequestsDone) => loadingSpinner = "none"

\* C5: dual view: the spinner is shown from the first loadModel call on and is
\* hidden exactly when two loads have succeeded: never with fewer, and from the
\* success callback that makes modelsLoaded 2, whichever load that is.
C5_SpinnerUntilBothLoaded ==
    page = "dual" =>
        /\ modelsLoaded = Cardinality({ v \in 1..2 : requests[v].state = "loaded" })
        /\ loadingSpinner = (IF modelsLoaded = 2 THEN "none" ELSE "block")

C5_Witness ==
    /\ page = "dual" /\ ev.type = "load" /\ ev.vp = 1
    /\ modelsLoaded = 2 /\ loadingSpinner = "none"

\* C6: single view: after a load has ended, in success or in error, the spinner
\* and the loading bar both have display 'none'.
C6_SurfaceHiddenAfterLoad ==
    (page = "single" /\ ev.type \in {"load", "error"}) =>
        loadingSpinner = "none" /\ loadingBar = "none"

\* C7: single view: when a load has ended in error, that load's model is not in
\* the scene, and after a selection change the scene holds no model.  (That the
\* callback leaves the scene's children and the camera as they were is
\* C7_ErrorChangesNothing.)
C7_NoModelAfterError ==
    (page = "single" /\ ev.type = "error") =>
        /\ \A m \in Models(scene) : m.id # ev.load
        /\ ev.load > 1 => Models(scene) = {}

\* the onError callback leaves the scene's children and the camera pose alone
C7_ErrorChangesNothing ==
    [][(page = "single" /\ ev'.type = "error" /\ ev' # ev) =>
          scene' = scene /\ camera' = camera /\ object' = object]_vars

\* the framing of a camera on a box, for C8
C8_Framed(cam, ctl, bbox, zoomFactor) ==
    /\ ctl.target = BoxCenter(bbox)
    /\ cam.position[1] = BoxCenter(bbox)[1]
    /\ cam.position[2] = BoxCenter(bbox)[2]
    /\ (cam.position[3] - BoxCenter(bbox)[3]) * 10 = BoxRadius(bbox) * 2 * zoomFactor

\* C8: when an onLoad callback has run, the viewport's camera is at the box's
\* centre plus (0, 0, radius * 2 * zoomFactor) and the orbit target is the centre;
\* zoomFactor is 0.8 and 0.9 in the dual view and 1 in the single view.
C8_FramingAfterLoad ==
    ev.type = "load" =>
        /\ (page = "dual" /\ ev.vp = 1) =>
              \A m \in Models(scene1) : C8_Framed(camera1, controls1, m.bbox, 8)
        /\ (page = "dual" /\ ev.vp = 2) =>
              \A m \in Models(scene2) : C8_Framed(camera2, controls2, m.bbox, 9)
        /\ page = "single" =>
              \A m \in Models(scene) : m.id = ev.load => C8_Framed(camera, controls, m.bbox, 10)

C8_Witness ==
    /\ page = "dual" /\ ev.type = "load" /\ ev.vp = 2
    /\ Models(scene2) # {}
    /\ camera2.position # camera1.position

\* the largest of a box's three extents, for C9
C9_LargestExtent(bbox) ==
    CHOOSE m \in { BoxSize(bbox)[k] : k \in 1..3 } :
        \A k \in 1..3 : m >= BoxSize(bbox)[k]

\* C9 as stated: for every model either viewer loads, maxExtent * scaleFactor
\* equals desiredDisplaySize (2).
C9_Original ==
    applied.view # "none" =>
        FMul(applied.scale, <<C9_LargestExtent(applied.bbox), 1>>) = <<20, 1>>

\* the factor the switch of main.js gives a model, for C9
C9_Factor(a) ==
    IF a.view = "single" /\ a.modelName \in {"lowerlimb_2_diffuse", "lowerlimb_2_polarized",
                                             "lowerlimb_polarized"} THEN <<3, 4>>
    ELSE IF a.view = "single" /\ a.modelName \in {"lowerlimb_polarized_Annotations",
                                                  "lowerlimb_diffuse_Annotations"} THEN <<4, 5>>
    ELSE <<1, 1>>

\* C9, amended: maxExtent * scaleFactor equals desiredDisplaySize times the
\* model's factor in the single view's switch: 0.75 for lowerlimb_2_diffuse,
\* lowerlimb_2_polarized and lowerlimb_polarized, 0.8 for the two lowerlimb
\* Annotations models, and 1 for the other entries, the default case and both
\* models of the dual view.
C9_ScaleTimesExtent ==
    applied.view # "none" =>
        FMul(applied.scale, <<C9_LargestExtent(applied.bbox), 1>>)
            = FMul(<<20, 1>>, C9_Factor(applied))

C9_Witness ==
    /\ applied.view = "single" /\ applied.modelName = "lowerlimb_polarized_Annotations"
    /\ applied.scale = <<2, 5>>

\* C10: single view: the progress value is 0 when a load has just been started
\* and 100 when a load has just completed or failed.
C10_ProgressResetAndForced ==
    page = "single" =>
        /\ ev.type \in {"script", "select"} => loadingProgress = <<0, 1>>
        /\ ev.type \in {"load", "error"} => loadingProgress = <<100, 1>>

\* a <= b for two finite fractions
C11_Le(a, b) == a[1] * b[2] <= b[1] * a[2]

\* a written value that is a percentage between 0 and 100
C11_InRange(p) == p[2] > 0 /\ C11_Le(<<0, 1>>, p) /\ C11_Le(p, <<100, 1>>)

\* C11: single view: every value a progress event writes to the progress bar lies
\* in 0..100, and it is not less than the value the load's previous progress
\* event wrote, for events whose loaded count never decreases and whose total may
\* be 0.
C11_ProgressMonotoneInRange ==
    [][(page = "single" /\ ev'.type = "progress" /\ ev' # ev) =>
          /\ C11_InRange(ev'.frame[1])
          /\ requests[ev'.load].total # -1 =>
                 /\ C11_InRange(Progress(requests[ev'.load].loaded, requests[ev'.load].total))
                 /\ C11_Le(Progress(requests[ev'.load].loaded, requests[ev'.load].total),
                           ev'.frame[1])]_vars

\* C12: a resize that follows a resize to the same window width and height leaves
\* every camera's aspect and every renderer's size as the first one set them, in
\* the dual and in the single view.
C12_ResizeIdempotent ==
    [][(ev.type = "resize" /\ ev'.type = "resize" /\ window' = window) =>
          /\ page = "dual" =>
                /\ camera1'.aspect = camera1.aspect /\ camera2'.aspect = camera2.aspect
                /\ renderer1' = renderer1 /\ renderer2' = renderer2
          /\ page = "single" =>
                camera'.aspect = camera.aspect /\ renderer' = renderer]_vars

C12_Witness ==
    /\ page = "dual" /\ ev.type = "resize" /\ ev.again
    /\ window.innerWidth = 9
    /\ camera1.aspect = <<3, 4>> /\ camera2.aspect = <<3, 4>>
    /\ renderer1.width = <<9, 2>> /\ renderer2.width = <<9, 2>>

\* C13: the resize handler leaves the camera poses, the orbit targets, syncEnabled,
\* modelsLoaded, the scenes' contents and the spinner as they were, and makes no
\* camera-to-camera copy.
C13_ResizeChangesOnlySizes ==
    [][ev'.type = "resize" =>
          /\ Pose(camera1') = Pose(camera1) /\ Pose(camera2') = Pose(camera2)
          /\ Pose(camera') = Pose(camera)
          /\ controls1'.target = controls1.target /\ controls2'.target = controls2.target
          /\ controls'.target = controls.target
          /\ syncEnabled' = syncEnabled /\ modelsLoaded' = modelsLoaded
          /\ scene1' = scene1 /\ scene2' = scene2 /\ scene' = scene
          /\ loadingSpinner' = loadingSpinner
          /\ ev'.copies = <<>>]_vars

\* C14: in the dual view the button is green exactly when syncEnabled and red
\* exactly when not, from initSyncButton on; toggleSync negates syncEnabled, sets
\* the colour and changes nothing else (no camera, no controls, no loader state);
\* the second of two consecutive toggles restores the flag and the colour.
C14_ToggleOnlyFlipsFlagAndColour ==
    /\ [](page = "dual" =>
            /\ syncEnabled => syncButton = "#00FF00"
            /\ ~syncEnabled => syncButton = "#FF0000")
    /\ [][(page = "dual" /\ ev'.type = "toggle") =>
            /\ syncEnabled' = ~syncEnabled
            /\ syncButton' = (IF syncEnabled THEN "#FF0000" ELSE "#00FF00")
            /\ UNCHANGED <<camera1, camera2, controls1, controls2, requests, modelsLoaded,
                           objects, loadingSpinner, scene1, scene2, renderer1, renderer2,
                           canvas1, canvas2, window, lastChange>>
            /\ ev.type = "toggle" =>
                   /\ syncEnabled' = ev.was.syncEnabled
                   /\ syncButton' = ev.was.syncButton]_vars

C14_Witness ==
    /\ page = "dual" /\ ev.type = "toggle" /\ ev.again
    /\ ~ev.was.syncEnabled /\ ev.was.syncButton = "#FF0000"
    /\ syncEnabled /\ syncButton = "#00FF00"

\* C15: dual view, sync enabled: every copy has one source camera, and it is the
\* camera of the viewport that dispatched 'change' last: in a listener the viewport
\* of the event it handles, in a tick the viewport of the last event before it.
C15_LastWriterWins ==
    page = "dual" =>
        /\ ev.type \in {"interact", "resize"} =>
              \A i \in DOMAIN ev.copies :
                  i \in DOMAIN ev.changes /\ ev.copies[i].from = ev.changes[i].vp
        /\ (ev.type = "animate" /\ syncEnabled) =>
              /\ Len(ev.copies) = 1
              /\ lastChange # 0 => ev.copies[1].from = lastChange

\* C16: dual view: every copy a handler makes is made with controls1.enabled and
\* controls2.enabled both false, and both are true when the handler is done.
C16_CopyWithControlsDisabled ==
    page = "dual" =>
        /\ controls1.enabled /\ controls2.enabled
        /\ \A i \in DOMAIN ev.copies : ~ev.copies[i].en1 /\ ~ev.copies[i].en2

\* a tick that comes right after a handler whose last 'change' came from
\* viewport 2 and was mirrored, for C17
C17_TickAfterChange2 ==
    /\ page = "dual" /\ syncEnabled
    /\ ev.type \in {"interact", "resize"} /\ ev.changes # <<>>
    /\ ev.changes[Len(ev.changes)].vp = 2 /\ ev.changes[Len(ev.changes)].heard
    /\ ev'.type = "animate"

C18_Chained(changes) ==
    { <<i, j>> \in (DOMAIN changes) \X (DOMAIN changes) :
         /\ i < j /\ changes[i].heard /\ changes[j].vp # changes[i].vp
         /\ changes[j].pose.position =
               (IF changes[i].vp = 1 THEN changes[i].after2 ELSE changes[i].after1).position }

\* C18: dual view: no handler dispatches 'change' while a copy is made; with sync
\* enabled each 'change' leads to one copy, and no 'change' of the other viewport
\* follows from that copy.
C18_NoNotificationChain ==
    page = "dual" =>
        /\ ev.type = "animate" => ev.changes = <<>>
        /\ (ev.type \in {"interact", "resize"} /\ syncEnabled) =>
              /\ Len(ev.copies) = Len(ev.changes)
              /\ C18_Chained(ev.changes) = {}

\* outside the resize handler no 'change' follows from a copy
C18_NoChainOutsideResize ==
    (page = "dual" /\ ev.type # "resize") =>
        /\ Len(ev.changes) <= 1
        /\ ev.type = "animate" => ev.changes = <<>>
        /\ (ev.type = "interact" /\ syncEnabled) => Len(ev.copies) = Len(ev.changes)

\* C19: dual view: a failed load changes nothing but its own request; with one
\* load failed the other's onLoad still attaches its model and frames its camera,
\* every tick draws both viewports, a toggle still negates syncEnabled and a
\* 'change' is still mirrored.
C19_FailureIsolated ==
    [][page = "dual" =>
         /\ ev'.type = "error" =>
               /\ requests'[3 - ev'.vp] = requests[3 - ev'.vp]
               /\ UNCHANGED <<dualVars, loadingSpinner, window>>
         /\ (ev'.type = "load" /\ requests[3 - ev'.vp].state = "failed") =>
               /\ requests'[ev'.vp].state = "loaded"
               /\ ev'.vp = 1 => \E m \in Models(scene1') :
                                    m \notin scene1 /\ C8_Framed(camera1', controls1', m.bbox, 8)
               /\ ev'.vp = 2 => \E m \in Models(scene2') :
                                    m \notin scene2 /\ C8_Framed(camera2', controls2', m.bbox, 9)
         /\ ev'.type = "animate" => ev'.frame = <<Pose(camera1'), Pose(camera2')>>
         /\ (\E v \in 1..2 : requests[v].state = "failed") =>
               /\ ev'.type = "toggle" => syncEnabled' = ~syncEnabled
               /\ (ev'.type = "interact" /\ syncEnabled /\ ev'.changes # <<>>) =>
                      /\ Pose(camera1') = Pose(camera2')
                      /\ Pose(camera1') = ev'.changes[1].pose]_vars

C19_Witness ==
    /\ page = "dual" /\ requests[1].state = "failed" /\ requests[2].state = "loaded"
    /\ Models(scene1) = {} /\ Models(scene2) # {}
    /\ syncEnabled /\ ev.type = "interact" /\ ev.vp = 2 /\ Len(ev.copies) = 1
    /\ Pose(camera1) = Pose(camera2)
    /\ camera1.position # NewCamera(ZoomFactor1).position

\* C20: single view: while a load is in flight the spinner is shown.
C20_SpinnerWhileInFlight ==
    (page = "single" /\ ~RequestsDone) => loadingSpinner = "block"

\* the loads in flight
C21_InFlight == { i \in DOMAIN requests : requests[i].state = "pending" }

\* C21: at most one load is in flight per viewport: in the single view at most
\* one request is pending, in the dual view each viewport has its one request.
C21_OneLoadInFlight ==
    /\ page = "single" => Cardinality(C21_InFlight) <= 1
    /\ page = "dual" => Len(requests) = 2 /\ \A v \in 1..2 :
                            requests[v].modelName = DualModelName(v)

\* C23: dual view, sync enabled: every frame of a tick is drawn after the tick's
\* copy, with camera 1 and camera 2 at the same position and orientation,
\* whatever load callbacks and change events ran before the tick.
C23_FrameDrawnWithEqualPoses ==
    (page = "dual" /\ syncEnabled /\ ev.type = "animate") =>
        /\ Len(ev.copies) = 1
        /\ ev.frame = <<Pose(camera1), Pose(camera2)>>
        /\ ev.frame[1] = ev.frame[2]

C23_Witness ==
    /\ page = "dual" /\ syncEnabled /\ ev.type = "animate"
    /\ requests[1].state = "pending" /\ requests[2].state = "loaded"
    /\ lastChange = 0
    /\ ev.frame[1] = ev.frame[2]
    /\ ev.frame[2].position = NewCamera(ZoomFactor1).position

\* the tick that comes right after a load callback puts camera 1's pose on
\* camera 2: the framing of viewport 2 is replaced, that of viewport 1 propagated
C24_NextTickReplacesFraming ==
    [][(page = "dual" /\ syncEnabled /\ ev.type = "load" /\ ev'.type = "animate") =>
          /\ Pose(camera1') = Pose(camera1) /\ Pose(camera2') = Pose(camera1)
          /\ ev.vp = 1 => \A m \in Models(scene1) :
                              camera2'.position = Framing(m.bbox, 8)
          /\ ev.vp = 2 => \A m \in Models(scene2) :
                              camera2'.position # Framing(m.bbox, 9)]_vars

\* C24: dual view, sync enabled: no frame draws viewport 2 with the framing its
\* own onLoad gave camera 2 (the next tick replaces it by camera 1's pose), and
\* the framing viewport 1's onLoad gave camera 1 is on camera 2 after the next
\* tick.
C24_Framing2NeverRendered ==
    /\ [](( page = "dual" /\ syncEnabled /\ ev.type = "animate") =>
             \A m \in Models(scene2) : ev.frame[2].position # Framing(m.bbox, 9))
    /\ C24_NextTickReplacesFraming

\* C26: single view: when no load is in flight and the load started last has
\* succeeded, the scene's one model is that load's, `object` refers to it, and it
\* is the model of objToRender.
C26_ObjectIsLatestSelection ==
    (page = "single" /\ RequestsDone /\ requests[Len(requests)].state = "loaded") =>
        /\ object = Len(requests)
        /\ requests[Len(requests)].modelName = objToRender
        /\ \A m \in Models(scene) : m.id = Len(requests) /\ m.modelName = objToRender
        /\ Models(scene) # {}

\* C25: dual view: a toggle changes neither camera's pose; with sync enabled and
\* the cameras apart (as after a toggle from off to on), the first tick or
\* 'change' makes them equal: a tick leaves camera 1 and gives camera 2 its pose,
\* a 'change' of viewport 1 gives both camera 1's pose, a 'change' of viewport 2
\* gives both camera 2's pose.
C25_ToggleOnThenFirstSync ==
    [][page = "dual" =>
         /\ ev'.type = "toggle" =>
                Pose(camera1') = Pose(camera1) /\ Pose(camera2') = Pose(camera2)
         /\ (syncEnabled /\ Pose(camera1) # Pose(camera2)) =>
               /\ ev'.type = "animate" =>
                      Pose(camera1') = Pose(camera1) /\ Pose(camera2') = Pose(camera1)
               /\ (ev'.type \in {"interact", "resize"} /\ ev'.changes # <<>>) =>
                      /\ ev'.changes[1].after1 = ev'.changes[1].after2
                      /\ ev'.changes[1].after1 = ev'.changes[1].pose
                      /\ ev'.type = "interact" =>
                             /\ ev'.changes[1].vp = ev'.vp
                             /\ Pose(camera1') = ev'.changes[1].pose
                             /\ Pose(camera2') = ev'.changes[1].pose
                             /\ ev'.vp = 1 => camera2'.aspect = camera2.aspect
                             /\ ev'.vp = 2 => camera1'.aspect = camera1.aspect]_vars

C25_Witness ==
    /\ page = "dual" /\ syncEnabled
    /\ ev.type = "interact" /\ ev.vp = 2 /\ ev.first
    /\ Len(ev.changes) = 1 /\ ev.changes[1].vp = 2
    /\ Pose(camera1) = ev.changes[1].pose /\ Pose(camera2) = ev.changes[1].pose

\* C22: single view: after a pointer-down the info display is shown exactly when
\* the ray hit something and the nearest hit is not named 'Mesh', and is hidden
\* otherwise; when shown, its text is the nearest hit's name with a space in the
\* place of every underscore.
C22_InfoAfterPointerDown ==
    (page = "single" /\ ev.type = "pointerdown") =>
        LET shown == ev.intersects # <<>> /\ ev.intersects[1] # <<"M", "e", "s", "h">>
        IN /\ info.display = (IF shown THEN "block" ELSE "none")
           /\ shown =>
                 /\ Len(info.innerText) = Len(ev.intersects[1])
                 /\ \A i \in DOMAIN info.innerText :
                        /\ info.innerText[i] # "_"
                        /\ ev.intersects[1][i] # "_" => info.innerText[i] = ev.intersects[1][i]
                        /\ ev.intersects[1][i] = "_" => info.innerText[i] = " "

C22_Witness ==
    /\ page = "single" /\ ev.type = "pointerdown"
    /\ Len(ev.intersects) = 2 /\ ev.intersects[2] = MeshName
    /\ info.display = "block" /\ info.innerText = <<"m", " ", "t", " ", "a">>

\* a page with the quiz
C27_QuizPage == page \in {"upperlimb_quiz", "part_000_quiz"}

\* C27: quiz: 0 <= score <= currentQuestion <= quizData.length in every state; a
\* question (with its option buttons) is shown exactly while currentQuestion <
\* quizData.length, and it is question currentQuestion; an answer click adds
\* exactly 1 to currentQuestion and 0 or 1 to score.
C27_QuizInvariants ==
    /\ [](C27_QuizPage =>
            /\ 0 <= score /\ score <= currentQuestion /\ currentQuestion <= 10
            /\ Len(quizData) = 10
            /\ optionsElement.kind = "buttons" <=> currentQuestion < 10
            /\ currentQuestion < 10 =>
                   questionElement = quizData[currentQuestion + 1].question)
    /\ [][(C27_QuizPage /\ ev'.type = "answer") =>
            /\ currentQuestion' = currentQuestion + 1
            /\ score' \in {score, score + 1}]_vars

C27_Witness ==
    /\ C27_QuizPage /\ ev.type = "answer"
    /\ currentQuestion = 5 /\ score = 2
    /\ questionElement = quizData[6].question

\* C28: quiz: the result is shown exactly when the attempt has had
\* quizData.length answer clicks; the score it shows is the number of this
\* attempt's clicks on an option whose text is the question's answer; while the
\* result is shown there is no option button, and nothing but a retake changes
\* score or currentQuestion.
C28_ResultAfterAllAnswers ==
    /\ [](C27_QuizPage =>
            /\ optionsElement.kind = "result" <=> attempt.clicks = 10
            /\ attempt.clicks = currentQuestion
            /\ optionsElement.kind = "result" =>
                  /\ optionsElement.score = attempt.correct
                  /\ optionsElement.length = 10
                  /\ questionElement = "")
    /\ [][(C27_QuizPage /\ optionsElement.kind = "result" /\ ev'.type # "retake") =>
            UNCHANGED <<score, currentQuestion>>]_vars

C28_Witness ==
    /\ C27_QuizPage /\ ev.type = "answer"
    /\ optionsElement.kind = "result" /\ optionsElement.score = 7
    /\ attempt.clicks = 10 /\ attempt.correct = 7

\* C29: quiz: when retakeQuiz has run, currentQuestion and score are 0 and the
\* first question is shown; in every attempt, the first and the later ones, score
\* is the number of right answers of that attempt alone.
C29_RetakeStartsAfresh ==
    C27_QuizPage =>
        /\ score = attempt.correct
        /\ ev.type = "retake" =>
              /\ currentQuestion = 0 /\ score = 0
              /\ questionElement = quizData[1].question
              /\ optionsElement.kind = "buttons"
              /\ Len(optionsElement.buttons) = Len(quizData[1].options)

C29_Witness ==
    /\ C27_QuizPage /\ attempt.number = 2
    /\ ev.type = "retake" /\ ev.was.score = 10 /\ ev.was.currentQuestion = 10
    /\ score = 0 /\ currentQuestion = 0

====
